---- MODULE Spec2Model ----
(***************************************************************************)
(* Model of src/outlook_attachment_getter/outlook_attach.py: the class     *)
(* outlook_attachment with its two fields (attachment_filepath, df) and    *)
(* its methods get_attachment, extract_zip_content, set_df and df_getter,  *)
(* together with the three collaborators the methods drive: the Outlook    *)
(* folder that is searched, the file system, and the readers of zip and    *)
(* spreadsheet files.  Arguments are of the types the assert statements    *)
(* of lines 46-50, 79, 84 and 129-131 demand.                              *)
(***************************************************************************)
EXTENDS Integers, Sequences, FiniteSets, TLC

VARIABLES
    mailbox,              \* Items of the Outlook folder Inbox/Reports, in enumeration order
    files,                \* file system: path -> content of the file at that path
    attachment_filepath,  \* self.attachment_filepath
    df,                   \* self.df
    last                  \* the call the caller has just made and how it ended

vars == <<mailbox, files, attachment_filepath, df, last>>

(***************************************************************************)
(* Values.  Python's None is the empty tuple and a present value x is the  *)
(* one-element tuple <<x>>.                                                *)
(***************************************************************************)
None == <<>>
Some(x) == <<x>>
Range(s) == {s[i] : i \in DOMAIN s}

\* all sequences over S of length at most n
RECURSIVE SeqsUpTo(_, _)
SeqsUpTo(S, n) ==
    IF n = 0 THEN {<<>>}
    ELSE LET shorter == SeqsUpTo(S, n - 1)
         IN  shorter \cup {Append(s, x) : s \in {t \in shorter : Len(t) = n - 1}, x \in S}

(***************************************************************************)
(* Bounds of the model.                                                    *)
(***************************************************************************)
MaxEmails == 2      \* most items in the searched folder
MaxMembers == 2     \* most members of an archive
MaxNameLen == 2     \* longest member name / requested name, in characters

(***************************************************************************)
(* datetime values at second precision, as seconds since the start of the  *)
(* hour.  strftime('%m/%d/%Y %H:%M %p') keeps the date, the hour and the   *)
(* minute and has no field for the seconds; the mail client reads the      *)
(* string back as the instant at second 0 of that minute.                  *)
(***************************************************************************)
SecondsPerMinute == 60
Times == {0, 30, 60}    \* 00:00:00, 00:00:30 and 00:01:00

strftime(t) == [minute |-> t \div SecondsPerMinute]
FilterInstant(str) == str.minute * SecondsPerMinute

(***************************************************************************)
(* File contents.                                                          *)
(***************************************************************************)
Sheet(rows) == [kind |-> "xlsx", rows |-> rows, members |-> <<>>]
Archive(members) == [kind |-> "zip", rows |-> <<>>, members |-> members]
OtherFile == [kind |-> "other", rows |-> <<>>, members |-> <<>>]
NoFile == [kind |-> "absent", rows |-> <<>>, members |-> <<>>]

\* paths, as sequences of characters
BarePath == <<"f">>
BackslashPath == <<"C", "\\", "f">>
SlashPath == <<"d", "/", "g">>
SavePaths == {BackslashPath, SlashPath}
NoFiles == [p \in SavePaths \cup {BarePath} |-> NoFile]

\* line 52: ("\\" in save_attachment_as) or ("/" in save_attachment_as)
HasPathSeparator_NoCheck(save_attachment_as) == TRUE
HasPathSeparator(save_attachment_as) ==
    ("\\" \in Range(save_attachment_as)) \/ ("/" \in Range(save_attachment_as))

(***************************************************************************)
(* The mail store: the folders that exist, and the items of each.          *)
(***************************************************************************)
ReportsFolder == <<"Inbox", "Reports">>
MissingFolder == <<"Inbox", "Missing">>
MailFolders == {<<"Inbox">>, ReportsFolder}

Items(folder) == IF folder = ReportsFolder THEN mailbox ELSE <<>>

Attachment(name, content) == [FileName |-> name, content |-> content]
Email(t, subject, attachments) ==
    [ReceivedTime |-> t, Subject |-> subject, Attachments |-> attachments]

\* lines 67-72: descend from the root through each named subfolder
RECURSIVE ResolveFrom(_, _)
ResolveFrom(folderpath_list, i) ==
    IF i > Len(folderpath_list) THEN [ok |-> TRUE, kind |-> "none"]
    ELSE IF SubSeq(folderpath_list, 1, i) \notin MailFolders
         THEN [ok |-> FALSE, kind |-> "com_error"]
         ELSE ResolveFrom(folderpath_list, i + 1)

\* lines 67-75: with an empty list the loop never binds Folder
ResolveFolder(folderpath_list) ==
    IF folderpath_list = <<>> THEN [ok |-> FALSE, kind |-> "UnboundLocalError"]
    ELSE ResolveFrom(folderpath_list, 1)

\* lines 78-80: emails.Restrict("[ReceivedTime] >= '" + strftime(start) + "'")
RestrictStart(emails, start_interval) ==
    IF start_interval = None THEN emails
    ELSE SelectSeq(emails,
           LAMBDA e : e.ReceivedTime >= FilterInstant(strftime(start_interval[1])))

\* lines 83-85: emails.Restrict("[ReceivedTime] <= '" + strftime(end) + "'")
RestrictEnd(emails, end_interval) ==
    IF end_interval = None THEN emails
    ELSE SelectSeq(emails,
           LAMBDA e : e.ReceivedTime <= FilterInstant(strftime(end_interval[1])))

Orderings(s) ==
    {[i \in DOMAIN s |-> s[p[i]]] :
        p \in {q \in [DOMAIN s -> DOMAIN s] : \A i, j \in DOMAIN s : i # j => q[i] # q[j]}}

\* line 88: emails.Sort("[ReceivedTime]", True); items received at the same
\* instant may come out in either order
Sort_Unsorted(emails) == {emails}
Sort(emails) ==
    {s \in Orderings(emails) :
        \A i \in 1..(Len(s) - 1) : s[i].ReceivedTime >= s[i + 1].ReceivedTime}

\* lines 97-99: the first attachment of the email with the requested FileName
RECURSIVE ScanAttachments(_, _, _)
ScanAttachments(attachments, email_attachment_name, j) ==
    IF j > Len(attachments) THEN None
    ELSE IF attachments[j].FileName = email_attachment_name THEN Some(attachments[j])
         ELSE ScanAttachments(attachments, email_attachment_name, j + 1)

\* lines 93-99: the first email, in the order given, with the subject and such
\* an attachment
RECURSIVE ScanEmails(_, _, _, _)
ScanEmails(emails, email_subject_name, email_attachment_name, i) ==
    IF i > Len(emails) THEN [email |-> None, attachment |-> None]
    ELSE LET found == IF emails[i].Subject = email_subject_name
                      THEN ScanAttachments(emails[i].Attachments, email_attachment_name, 1)
                      ELSE None
         IN  IF found # None THEN [email |-> Some(emails[i]), attachment |-> found]
             ELSE ScanEmails(emails, email_subject_name, email_attachment_name, i + 1)

(***************************************************************************)
(* The caller.  Calls are synchronous: the caller makes a call, holds its  *)
(* outcome in `last`, and goes on to its next call.                        *)
(***************************************************************************)
Idle == [op |-> "none"]
NoError == [kind |-> "none", names |-> <<>>]

caller_continue ==
    /\ last.op # "none"
    /\ last' = Idle
    /\ UNCHANGED <<mailbox, files, attachment_filepath, df>>

(***************************************************************************)
(* get_attachment, lines 32-117.                                           *)
(***************************************************************************)
GetCall(folderpath_list, email_subject_name, email_attachment_name, start_interval, end_interval, save_attachment_as) ==
    [op |-> "get_attachment",
     folderpath_list |-> folderpath_list,
     email_subject_name |-> email_subject_name,
     email_attachment_name |-> email_attachment_name,
     start_interval |-> start_interval,
     end_interval |-> end_interval,
     save_attachment_as |-> save_attachment_as,
     outcome |-> "raised",       \* "raised" | "returned"
     error |-> NoError,
     ret |-> None,               \* the value returned
     contacted |-> FALSE,        \* Dispatch("Outlook.Application") was called
     resolved |-> FALSE,         \* the folder was resolved
     scanned |-> FALSE,          \* the filters and the sort were applied
     filtered |-> <<>>,          \* the items left by the two Restrict calls
     selected |-> None,          \* the email whose attachment was chosen
     wrote |-> None]             \* the path SaveAsFile wrote

Raise(call, kind, names) == [call EXCEPT !.outcome = "raised", !.error = [kind |-> kind, names |-> names]]

\* line 106: self.attachment_filepath = save_attachment_as
RecordSavedPath_Skip(old, save_attachment_as) == old
RecordSavedPath(old, save_attachment_as) == Some(save_attachment_as)

get_attachment(folderpath_list, email_subject_name, email_attachment_name, start_interval, end_interval, save_attachment_as) ==
    LET call == GetCall(folderpath_list, email_subject_name, email_attachment_name,
                        start_interval, end_interval, save_attachment_as)
        folder == ResolveFolder(folderpath_list)
        opened == [call EXCEPT !.contacted = TRUE]
        quiet == UNCHANGED <<mailbox, files, attachment_filepath, df>>
    IN
    /\ last.op = "none"
    /\ IF save_attachment_as # None /\ ~HasPathSeparator(save_attachment_as[1])
       THEN \* lines 52-53
            last' = Raise(call, "FullPathRequired", <<>>) /\ quiet
       ELSE IF start_interval # None /\ end_interval # None
               /\ start_interval[1] > end_interval[1]
       THEN \* lines 56-58
            last' = Raise(call, "IntervalOrder",
                          <<strftime(start_interval[1]), strftime(end_interval[1])>>) /\ quiet
       ELSE IF start_interval = None \/ end_interval = None
       THEN \* lines 60-61: None has no strftime
            last' = Raise(call, "AttributeError", <<>>) /\ quiet
       ELSE IF ~folder.ok
       THEN \* lines 64-75
            last' = Raise(opened, folder.kind, <<>>) /\ quiet
       ELSE LET filtered == RestrictEnd(RestrictStart(Items(folderpath_list), start_interval),
                                        end_interval)
                searched == [opened EXCEPT !.resolved = TRUE, !.scanned = TRUE,
                                           !.filtered = filtered]
            IN  \E sorted \in Sort(filtered) :
                  LET hit == ScanEmails(sorted, email_subject_name, email_attachment_name, 1)
                      chosen == [searched EXCEPT !.selected = hit.email]
                  IN  IF hit.email = None
                      THEN \* lines 116-117
                           /\ last' = Raise(chosen, "NotFound",
                                            <<email_subject_name, email_attachment_name>>)
                           /\ quiet
                      ELSE IF save_attachment_as = None
                      THEN \* lines 110-112
                           /\ last' = [chosen EXCEPT !.outcome = "returned",
                                                     !.ret = hit.attachment]
                           /\ quiet
                      ELSE \* lines 102-109: SaveAsFile writes the file or throws
                           \/ /\ files' = [files EXCEPT ![save_attachment_as[1]] =
                                                          hit.attachment[1].content]
                              /\ attachment_filepath' =
                                   RecordSavedPath(attachment_filepath, save_attachment_as[1])
                              /\ last' = [chosen EXCEPT !.outcome = "returned",
                                                        !.wrote = save_attachment_as]
                              /\ UNCHANGED <<mailbox, df>>
                           \/ /\ last' = Raise(chosen, "NotSaved", <<>>)
                              /\ quiet
                           \/ \* the save threw after part of the file was written
                              /\ files' = [files EXCEPT ![save_attachment_as[1]] = OtherFile]
                              /\ last' = Raise(chosen, "NotSaved", <<>>)
                              /\ UNCHANGED <<mailbox, attachment_filepath, df>>

(***************************************************************************)
(* The search specification: every folder content of up to MaxEmails items *)
(* and every query.                                                        *)
(***************************************************************************)
Subjects == {"Daily Export", "Weekly"}
AttachmentNames == {"export.zip", "notes.txt"}
SearchAttachments ==
    {<<>>,
     <<Attachment("export.zip", OtherFile)>>,
     <<Attachment("notes.txt", OtherFile), Attachment("export.zip", OtherFile)>>}
SearchEmails == {Email(t, s, a) : t \in Times, s \in Subjects, a \in SearchAttachments}
OptionalTimes == {None} \cup {Some(t) : t \in Times}
SearchDestinations == {None, Some(BackslashPath)}
SearchFolders == {ReportsFolder}

InitSearch ==
    /\ mailbox \in SeqsUpTo(SearchEmails, MaxEmails)
    /\ files = NoFiles
    /\ attachment_filepath = None
    /\ df = None
    /\ last = Idle

SearchCall ==
    \E folderpath_list \in SearchFolders, email_subject_name \in Subjects,
       email_attachment_name \in AttachmentNames,
       start_interval \in OptionalTimes, end_interval \in OptionalTimes,
       save_attachment_as \in SearchDestinations :
        get_attachment(folderpath_list, email_subject_name, email_attachment_name,
                       start_interval, end_interval, save_attachment_as)

NextSearch == SearchCall \/ caller_continue

SpecSearch == InitSearch /\ [][NextSearch]_vars

(***************************************************************************)
(* extract_zip_content, lines 120-163.                                     *)
(***************************************************************************)
\* line 133: zipfile.is_zipfile(filepath); a missing file is not a zip file
is_zipfile_Always(content) == TRUE
is_zipfile(content) == content.kind = "zip"

\* line 141: zip_file.namelist()
namelist(content) == content.members

\* line 154: extract_file_name in file_name
Contains_PrefixOnly(extract_file_name, file_name) ==
    /\ Len(extract_file_name) <= Len(file_name)
    /\ SubSeq(file_name, 1, Len(extract_file_name)) = extract_file_name
Contains(extract_file_name, file_name) ==
    \E i \in 0..(Len(file_name) - Len(extract_file_name)) :
        SubSeq(file_name, i + 1, i + Len(extract_file_name)) = extract_file_name

\* lines 143-154: the test applied to one member
MemberMatches(extract_file_name, file_name, exact) ==
    IF exact THEN extract_file_name = file_name
    ELSE Contains(extract_file_name, file_name)

\* lines 141-160: one pass over the members; every match is extracted, and
\* filepath and file_name keep the values of the last iteration
RECURSIVE ExtractLoop(_, _, _, _, _, _)
ExtractLoop(names, extract_file_name, save_unzipped_folder, exact, k, acc) ==
    IF k > Len(names) THEN acc
    ELSE LET file_name == names[k]
             seen == [acc EXCEPT !.file_name = Some(file_name)]
         IN  ExtractLoop(names, extract_file_name, save_unzipped_folder, exact, k + 1,
                 IF MemberMatches(extract_file_name, file_name, exact)
                 THEN [seen EXCEPT
                         !.extracted = Append(@, file_name),
                         !.filepath = save_unzipped_folder \o <<"\\">> \o file_name,
                         !.file_found = TRUE,
                         !.printed = Append(@, [kind |-> "Unzipped",
                             names |-> <<save_unzipped_folder \o <<"\\">> \o file_name>>])]
                 ELSE seen)

ExtractCall(filepath, extract_file_name, save_unzipped_folder, exact) ==
    [op |-> "extract_zip_content",
     filepath |-> filepath,
     extract_file_name |-> extract_file_name,
     save_unzipped_folder |-> save_unzipped_folder,
     exact |-> exact,
     outcome |-> "returned",
     error |-> NoError,
     extracted |-> <<>>,         \* the members given to zip_file.extract, in order
     printed |-> <<>>]           \* the messages printed

extract_zip_content(filepath, extract_file_name, save_unzipped_folder, exact) ==
    LET call == ExtractCall(filepath, extract_file_name, save_unzipped_folder, exact)
        content == files[filepath]
    IN
    /\ last.op = "none"
    /\ UNCHANGED <<mailbox, files, attachment_filepath, df>>
    /\ IF ~is_zipfile(content)
       THEN \* line 134
            last' = [call EXCEPT !.printed = <<[kind |-> "NotZip", names |-> <<filepath>>]>>]
       ELSE LET loop == ExtractLoop(namelist(content), extract_file_name,
                                    save_unzipped_folder, exact, 1,
                                    [extracted |-> <<>>, filepath |-> filepath,
                                     file_found |-> FALSE, file_name |-> None,
                                     printed |-> <<>>])
                done == [call EXCEPT !.extracted = loop.extracted, !.printed = loop.printed]
            IN  IF loop.file_found THEN last' = done
                ELSE IF loop.file_name = None
                THEN \* line 163 reads file_name, which the loop never bound
                     last' = Raise(done, "UnboundLocalError", <<>>)
                ELSE \* line 163
                     last' = [done EXCEPT !.printed =
                                Append(@, [kind |-> "NotFound", names |-> <<loop.file_name[1]>>])]

(***************************************************************************)
(* set_df and df_getter, lines 166-177.                                    *)
(***************************************************************************)
\* line 172: pd.read_excel(io, engine='openpyxl'): the first row gives the
\* column labels and the rows below it the data; None, a missing file or a
\* file that is no workbook makes the reader throw
read_excel_AnyFile(io) ==
    IF io # None /\ files[io[1]].kind = "xlsx" /\ files[io[1]].rows # <<>>
    THEN [ok |-> TRUE, frame |-> [columns |-> Head(files[io[1]].rows),
                                  data |-> Tail(files[io[1]].rows)]]
    ELSE [ok |-> TRUE, frame |-> [columns |-> <<>>, data |-> <<>>]]
read_excel(io) ==
    IF io = None THEN [ok |-> FALSE, kind |-> "ValueError"]
    ELSE IF files[io[1]].kind = "absent" THEN [ok |-> FALSE, kind |-> "FileNotFoundError"]
    ELSE IF files[io[1]].kind # "xlsx" THEN [ok |-> FALSE, kind |-> "BadZipFile"]
    ELSE IF files[io[1]].rows = <<>>
         THEN [ok |-> TRUE, frame |-> [columns |-> <<>>, data |-> <<>>]]
         ELSE [ok |-> TRUE, frame |-> [columns |-> Head(files[io[1]].rows),
                                       data |-> Tail(files[io[1]].rows)]]

set_df ==
    LET read == read_excel(attachment_filepath)
        call == [op |-> "set_df", outcome |-> "returned", error |-> NoError, ret |-> None]
    IN
    /\ last.op = "none"
    /\ IF read.ok
       THEN /\ df' = Some(read.frame)
            /\ last' = call
       ELSE /\ df' = df
            /\ last' = Raise(call, read.kind, <<>>)
    /\ UNCHANGED <<mailbox, files, attachment_filepath>>

\* lines 175-177
df_getter ==
    /\ last.op = "none"
    /\ last' = [op |-> "df_getter", outcome |-> "returned", error |-> NoError, ret |-> df]
    /\ UNCHANGED <<mailbox, files, attachment_filepath, df>>

(***************************************************************************)
(* The instance's life: construction (lines 11-14), then any sequence of   *)
(* calls.  The folder holds spreadsheets and other files.                  *)
(***************************************************************************)
Sheet1 == Sheet(<< <<"id">>, <<"1">> >>)
Sheet2 == Sheet(<< <<"id">>, <<"2">>, <<"3">> >>)
MailedArchive == Archive(<< <<"x", "r">> >>)
MailedContents == {Sheet1, Sheet2, MailedArchive}
MailedEmails ==
    {Email(t, "Daily Export", <<Attachment("export.zip", c)>>) :
        t \in {0, SecondsPerMinute}, c \in MailedContents}
Destinations == {None, Some(BarePath), Some(BackslashPath), Some(SlashPath)}
Folders == {ReportsFolder, MissingFolder, <<>>}
NameChars == {"r", "x"}
MemberNames == SeqsUpTo(NameChars, MaxNameLen) \ {<<>>}
OutFolder == <<"o">>

Init ==
    /\ mailbox \in SeqsUpTo(MailedEmails, MaxEmails)
    /\ files = NoFiles
    /\ attachment_filepath = None
    /\ df = None
    /\ last = Idle

Fetch ==
    \E folderpath_list \in Folders,
       start_interval \in {None, Some(0)},
       end_interval \in {Some(0), Some(SecondsPerMinute)},
       save_attachment_as \in Destinations :
        get_attachment(folderpath_list, "Daily Export", "export.zip",
                       start_interval, end_interval, save_attachment_as)

Unzip ==
    \E filepath \in SavePaths, exact \in BOOLEAN :
        extract_zip_content(filepath, <<"r">>, OutFolder, exact)

Next == Fetch \/ Unzip \/ set_df \/ df_getter \/ caller_continue

Spec == Init /\ [][Next]_vars

(***************************************************************************)
(* The archive specification: every archive of up to MaxMembers members    *)
(* and every requested name, in both match modes.                          *)
(***************************************************************************)
Archives == {Archive(m) : m \in SeqsUpTo(MemberNames, MaxMembers)}

InitZip ==
    /\ mailbox = <<>>
    /\ \E c \in Archives \cup {OtherFile, NoFile} :
          files = [NoFiles EXCEPT ![BackslashPath] = c]
    /\ attachment_filepath = None
    /\ df = None
    /\ last = Idle

UnzipAny ==
    \E extract_file_name \in SeqsUpTo(NameChars, MaxNameLen), exact \in BOOLEAN :
        extract_zip_content(BackslashPath, extract_file_name, OutFolder, exact)

NextZip == UnzipAny \/ caller_continue

SpecZip == InitZip /\ [][NextZip]_vars

(***************************************************************************)
(* Properties.                                                             *)
(***************************************************************************)
\* the email has the subject and an attachment with the file name
IsMatch(email, subject, name) ==
    /\ email.Subject = subject
    /\ \E j \in DOMAIN email.Attachments : email.Attachments[j].FileName = name

\* the received time lies in the interval; an absent bound does not bound
InInterval(t, start, end) ==
    /\ start # None => t >= start[1]
    /\ end # None => t <= end[1]

NoSeparator(path) == \A i \in DOMAIN path : path[i] \notin {"\\", "/"}

\* a call has just been made
Called(op) == last.op = "none" /\ last'.op = op

\* C1: with start <= end both given, get_attachment never selects an email
\* received before start or after end, and an email with the subject and the
\* attachment that was received exactly at start or exactly at end is eligible:
\* a search that reaches the folder then selects some email.
C1_SelectedWithinInterval ==
    (/\ last.op = "get_attachment"
     /\ last.start_interval # None /\ last.end_interval # None
     /\ last.start_interval[1] <= last.end_interval[1])
    => /\ last.selected # None =>
            InInterval(last.selected[1].ReceivedTime, last.start_interval, last.end_interval)
       /\ (/\ last.scanned
           /\ \E i \in DOMAIN mailbox :
                /\ IsMatch(mailbox[i], last.email_subject_name, last.email_attachment_name)
                /\ mailbox[i].ReceivedTime \in {last.start_interval[1], last.end_interval[1]})
          => last.selected # None

\* C2: when emails left by the filters match the query, get_attachment selects
\* a matching email with the greatest received time among the matches, whatever
\* the order of the folder, and the attachment chosen has the requested name.
C2_MostRecentMatch ==
    (last.op = "get_attachment" /\ last.scanned)
    => LET matches == {i \in DOMAIN last.filtered :
                          IsMatch(last.filtered[i], last.email_subject_name,
                                  last.email_attachment_name)}
       IN  IF matches = {} THEN last.selected = None
           ELSE /\ last.selected # None
                /\ \E i \in matches : last.filtered[i] = last.selected[1]
                /\ \A i \in matches :
                      last.filtered[i].ReceivedTime <= last.selected[1].ReceivedTime
                /\ last.ret # None => last.ret[1].FileName = last.email_attachment_name

\* two matches, the older one first in the folder's order, the newer one selected
C2_Witness ==
    /\ last.op = "get_attachment" /\ last.scanned /\ Len(last.filtered) = 2
    /\ IsMatch(last.filtered[1], last.email_subject_name, last.email_attachment_name)
    /\ IsMatch(last.filtered[2], last.email_subject_name, last.email_attachment_name)
    /\ last.filtered[1].ReceivedTime < last.filtered[2].ReceivedTime
    /\ last.selected = Some(last.filtered[2])
    /\ last.outcome = "returned"

\* a more recent email with the subject but without the attachment is passed over
C2_WitnessSkipped ==
    /\ last.op = "get_attachment" /\ last.scanned /\ last.selected # None
    /\ \E i \in DOMAIN last.filtered :
          /\ last.filtered[i].Subject = last.email_subject_name
          /\ ~IsMatch(last.filtered[i], last.email_subject_name, last.email_attachment_name)
          /\ last.filtered[i].ReceivedTime > last.selected[1].ReceivedTime

\* C3: a call with start absent or end absent, an existing folder and a valid
\* destination does not fail because of the missing bound: it returns or saves
\* a match, or fails with the not-found error (or the save failure).
C3_BoundsOptional ==
    (/\ last.op = "get_attachment"
     /\ (last.start_interval = None \/ last.end_interval = None)
     /\ last.folderpath_list \in MailFolders
     /\ (last.save_attachment_as = None \/ ~NoSeparator(last.save_attachment_as[1])))
    => \/ last.outcome = "returned"
       \/ last.error.kind \in {"NotFound", "NotSaved"}

\* C4: get_attachment with a destination that has neither a backslash nor a
\* forward slash fails before the mail client is contacted: no session, no
\* folder, no file written, and attachment_filepath as it was.
C4_BarePathFailsFirst ==
    [][(/\ Called("get_attachment")
        /\ last'.save_attachment_as # None
        /\ NoSeparator(last'.save_attachment_as[1]))
       => /\ last'.outcome = "raised"
          /\ ~last'.contacted /\ ~last'.resolved /\ ~last'.scanned
          /\ last'.wrote = None
          /\ files' = files
          /\ attachment_filepath' = attachment_filepath]_vars

\* a bare file name was refused while an earlier save is on record
C4_Witness ==
    /\ last.op = "get_attachment"
    /\ last.save_attachment_as = Some(BarePath)
    /\ last.outcome = "raised"
    /\ attachment_filepath # None

\* C5: if no email of the resolved folder received within the interval has the
\* subject and the attachment, get_attachment raises the not-found error naming
\* the subject and the attachment name, and writes no file.
C5_NotFoundRaises ==
    (/\ last.op = "get_attachment"
     /\ last.folderpath_list \in MailFolders
     /\ (last.save_attachment_as = None \/ ~NoSeparator(last.save_attachment_as[1]))
     /\ (last.start_interval # None /\ last.end_interval # None
            => last.start_interval[1] <= last.end_interval[1])
     /\ ~\E i \in DOMAIN Items(last.folderpath_list) :
            /\ IsMatch(Items(last.folderpath_list)[i], last.email_subject_name,
                       last.email_attachment_name)
            /\ InInterval(Items(last.folderpath_list)[i].ReceivedTime,
                          last.start_interval, last.end_interval))
    => /\ last.outcome = "raised"
       /\ last.error.kind = "NotFound"
       /\ last.email_subject_name \in Range(last.error.names)
       /\ last.email_attachment_name \in Range(last.error.names)
       /\ last.wrote = None

\* name occurs in member as a run of consecutive characters
IsSubstring(name, member) ==
    \E pre, post \in SeqsUpTo(NameChars, MaxNameLen) : pre \o name \o post = member

\* C6: on a valid archive, exact mode extracts exactly the members whose name
\* equals the requested name, and substring mode exactly the members whose name
\* contains it.
C6_ExtractsTheMatches ==
    (last.op = "extract_zip_content" /\ files[last.filepath].kind = "zip")
    => Range(last.extracted) =
          {m \in Range(files[last.filepath].members) :
              IF last.exact THEN m = last.extract_file_name
              ELSE IsSubstring(last.extract_file_name, m)}

\* substring mode took a member that only contains the name, not at its start,
\* and left another member alone
C6_Witness ==
    /\ last.op = "extract_zip_content" /\ ~last.exact
    /\ last.extract_file_name = <<"r">>
    /\ last.extracted = << <<"x", "r">> >>
    /\ Len(files[last.filepath].members) = 2

\* C7: on a valid archive with no matching member, also one with no members,
\* extract_zip_content prints a not-found message, returns without raising and
\* extracts nothing.
C7_NoMemberIsSoft ==
    (/\ last.op = "extract_zip_content"
     /\ last.extract_file_name # <<>>
     /\ files[last.filepath].kind = "zip"
     /\ \A k \in DOMAIN files[last.filepath].members :
           IF last.exact THEN files[last.filepath].members[k] # last.extract_file_name
           ELSE ~IsSubstring(last.extract_file_name, files[last.filepath].members[k]))
    => /\ last.outcome = "returned"
       /\ last.extracted = <<>>
       /\ \E k \in DOMAIN last.printed : last.printed[k].kind = "NotFound"

TableOf(content) ==
    [columns |-> IF content.rows = <<>> THEN <<>> ELSE content.rows[1],
     data |-> [i \in 1..(Len(content.rows) - 1) |-> content.rows[i + 1]]]

IsWorkbookAt(path) == path # None /\ files[path[1]].kind = "xlsx"

\* C9: df is None until a set_df succeeds; a set_df succeeds exactly when
\* attachment_filepath is set and names a valid spreadsheet, and then df is the
\* table of that file as it is at that moment; a set_df that fails raises and
\* leaves df alone; df_getter returns df; no other call changes df.
C9_Snapshot ==
    /\ df = None
    /\ [][/\ Called("set_df") =>
                IF IsWorkbookAt(attachment_filepath)
                THEN /\ last'.outcome = "returned"
                     /\ df' = Some(TableOf(files[attachment_filepath[1]]))
                ELSE /\ last'.outcome = "raised"
                     /\ df' = df
          /\ Called("df_getter") => (last'.outcome = "returned" /\ last'.ret = df)
          /\ ~Called("set_df") => df' = df]_vars

\* df_getter returned a table loaded earlier, although the file at
\* attachment_filepath has since been replaced by another spreadsheet
C9_Witness ==
    /\ last.op = "df_getter"
    /\ last.ret # None
    /\ IsWorkbookAt(attachment_filepath)
    /\ last.ret # Some(TableOf(files[attachment_filepath[1]]))

\* C10: attachment_filepath is None until a get_attachment with a destination
\* saves, and then is the destination of the latest such save.  A call without
\* a destination that succeeds returns the attachment, writes no file and leaves
\* attachment_filepath alone; a call that fails leaves it alone; a call with a
\* destination returns no attachment.
C10_LastSavedPath ==
    /\ attachment_filepath = None
    /\ [][/\ Called("get_attachment") =>
                /\ IF last'.outcome = "returned" /\ last'.save_attachment_as # None
                   THEN /\ attachment_filepath' = last'.save_attachment_as
                        /\ last'.wrote = last'.save_attachment_as
                        /\ files'[last'.save_attachment_as[1]] # NoFile
                   ELSE attachment_filepath' = attachment_filepath
                /\ (last'.outcome = "returned" /\ last'.save_attachment_as = None)
                      => /\ last'.ret # None
                         /\ last'.wrote = None
                         /\ files' = files
                /\ last'.save_attachment_as # None => last'.ret = None
          /\ ~Called("get_attachment") => attachment_filepath' = attachment_filepath]_vars

\* a save to one path after an earlier save to the other
C10_Witness ==
    /\ last.op = "get_attachment"
    /\ last.outcome = "returned"
    /\ last.wrote = Some(SlashPath)
    /\ attachment_filepath = Some(SlashPath)
    /\ files[BackslashPath] # NoFile

====
